---- MODULE Spec2Model ----
(***************************************************************************)
(* Model of the Agentic Run Coach: index build and retrieval               *)
(* (src/ingest), the agent/tools graph with run_plan and run_adjust, and   *)
(* the rule-based safety check (src/graph/coach_graph.py).                 *)
(*                                                                         *)
(* Numbers parsed from text are kept in tenths of a mile (30.0 -> 300), so *)
(* that 1.15 x N and 1.2 x R are compared exactly with integers.  On the   *)
(* inputs used here (multiples of 0.5) Python's float arithmetic gives the *)
(* same comparisons.                                                       *)
(***************************************************************************)
EXTENDS Integers, Sequences, FiniteSets, TLC

VARIABLES
    index,        \* INDEX_DIR: whether it exists, and the chunks saved in it
    lastOp,       \* the last top-level call of build_index.main / retrieve
    err,          \* the exception the last call ended with, or "none"
    docs,         \* the list returned by the last retrieve call
    embedCalled,  \* whether the last retrieve call created the embedding client
    pc,           \* position of the running operation
    op,           \* "plan" (run_plan), "adjust" (run_adjust), "rules", or "none"
    messages,     \* MessagesState["messages"] of the running graph invocation
    profile,      \* the profile argument
    planText,     \* plan_text / adjusted, and the plan_text argument of the check
    safety,       \* the second component of the returned pair
    warnings,     \* the list returned by _rule_based_safety
    review        \* safety_llm: the text _safety_review returned

vars == <<index, lastOp, err, docs, embedCalled, pc, op, messages, profile,
          planText, safety, warnings, review>>

(***************************************************************************)
(* Bounds of the model.                                                    *)
(***************************************************************************)
MaxRep == 10       \* a plan holds up to MaxRep + 1 distances
MaxLines == 3      \* lines of a keyword layout
MaxRounds == 2     \* agent -> tools round trips of one invocation
MaxCalls == 2      \* tool calls in one model response
MaxK == 2          \* the k of a retrieve call
MaxFiles == 2      \* files in the raw corpus
MaxParts == 2      \* chunks the splitter cuts one document into

(***************************************************************************)
(* Program constants.                                                      *)
(***************************************************************************)
None == -1         \* Python's None where a number is expected
SumCutoff == 10    \* miles[:10]
CapPercent == 115  \* current_weekly * 1.15
LongRunMargin == 2 \* recent_lr + 2
LongRunTenths == 12 \* recent_lr * 1.2
TailGap == 40      \* .{0,40} before the line break
HeadGap == 10      \* .{0,10} after the line break

(***************************************************************************)
(* Text.  A token is a sequence of characters.                             *)
(***************************************************************************)
Digits == {"0", "1", "2", "3", "4", "5", "6", "7", "8", "9"}

DigitVal(c) ==
    CASE c = "0" -> 0 [] c = "1" -> 1 [] c = "2" -> 2 [] c = "3" -> 3
      [] c = "4" -> 4 [] c = "5" -> 5 [] c = "6" -> 6 [] c = "7" -> 7
      [] c = "8" -> 8 [] c = "9" -> 9

RECURSIVE IntOf(_)
IntOf(s) ==
    IF s = <<>> THEN 0
    ELSE IntOf(SubSeq(s, 1, Len(s) - 1)) * 10 + DigitVal(s[Len(s)])

\* float(tok) for a token of digits and dots, in tenths; None stands for the
\* ValueError float raises ("1.2.3", ".").  Tokens carry at most one digit
\* after the dot.
Float(tok) ==
    LET dots == {i \in DOMAIN tok : tok[i] = "."}
    IN  IF Cardinality(dots) > 1 \/ Cardinality(dots) = Len(tok)
        THEN None
        ELSE LET d == IF dots = {} THEN Len(tok) + 1 ELSE CHOOSE i \in dots : TRUE
                 whole == SubSeq(tok, 1, d - 1)
                 frac == SubSeq(tok, d + 1, Len(tok))
             IN  IntOf(whole) * 10 + (IF frac = <<>> THEN 0 ELSE DigitVal(frac[1]))

ProfileNumber_LeadingDigit(field) ==
    IF field = <<>> THEN None
    ELSE IF Float(field) # None THEN Float(field)
    ELSE IF Head(field) \in Digits THEN DigitVal(Head(field)) * 10
    ELSE None

\* float(re.search(label + r":\s*([\d.]+)", profile).group(1)) inside
\* try/except: the field of the profile holds the captured group, <<>> when
\* the pattern matches nowhere (re.search gives None, .group raises).
ProfileNumber(field) ==
    IF field = <<>> THEN None ELSE Float(field)

\* if x:  -- None and 0.0 are both false.
Truthy(x) == x # None /\ x # 0

(***************************************************************************)
(* Plan text.  The two regular expressions of _rule_based_safety read two  *)
(* things of a plan text: the numbers followed by a unit word, in order    *)
(* (nums), and where the keywords stand in the lines (lines).  A line is   *)
(* [pre, kw, post]: a keyword kw with pre characters before it and post    *)
(* characters after it on its line; kw = "" is a line without keyword.     *)
(***************************************************************************)
HasPrefix(s, p) == Len(s) >= Len(p) /\ SubSeq(s, 1, Len(p)) = p

\* (?:mi|miles) right after the number: any word that starts with "mi"
\* ("mi", "miles", also "min"); case-sensitive.
IsMileUnit(item) == HasPrefix(item.unit, <<"m", "i">>)

RECURSIVE FloatAll(_)
FloatAll(items) ==
    IF items = <<>> THEN <<>>
    ELSE <<Float(Head(items).num)>> \o FloatAll(Tail(items))

\* miles = [float(m) for m in re.findall(r"(\d+(?:\.\d+)?)\s*(?:mi|miles)", plan_text)]
ExtractMiles(plan) == FloatAll(SelectSeq(plan.nums, IsMileUnit))

RECURSIVE SumSeq(_)
SumSeq(s) == IF s = <<>> THEN 0 ELSE Head(s) + SumSeq(Tail(s))

RECURSIVE MaxSeq(_)
MaxSeq(s) ==
    IF s = <<>> THEN 0
    ELSE LET m == MaxSeq(Tail(s)) IN IF Head(s) > m THEN Head(s) ELSE m

\* miles[:n]
Take(s, n) == SubSeq(s, 1, IF Len(s) < n THEN Len(s) ELSE n)

\* weekly_total = sum(miles[:10]) if miles else 0
WeeklyTotal(miles) == SumSeq(Take(miles, SumCutoff))

\* max_long = max(miles) if miles else 0
MaxLong(miles) == MaxSeq(miles)

\* str.lower() and re.IGNORECASE on the keywords used here
Lower(kw) ==
    CASE kw \in {"Tempo", "TEMPO", "tempo"} -> "tempo"
      [] kw \in {"Interval", "INTERVAL", "interval"} -> "interval"
      [] OTHER -> kw

IsKeyword(line) == Lower(line.kw) \in {"tempo", "interval"}

\* "tempo" in plan_text.lower()
ContainsWord(plan, w) == \E i \in DOMAIN plan.lines : Lower(plan.lines[i].kw) = w

BackToBackSearch_AnyIndent(plan) ==
    \E i \in 1..(Len(plan.lines) - 1) :
        /\ IsKeyword(plan.lines[i])
        /\ plan.lines[i].post <= TailGap
        /\ IsKeyword(plan.lines[i + 1])

\* re.search(r"(tempo|interval).{0,40}\n.{0,10}(tempo|interval)", plan_text, re.IGNORECASE)
\* "." does not match a line break, so the two keywords stand on adjacent lines.
BackToBackSearch(plan) ==
    \E i \in 1..(Len(plan.lines) - 1) :
        /\ IsKeyword(plan.lines[i])
        /\ plan.lines[i].post <= TailGap
        /\ IsKeyword(plan.lines[i + 1])
        /\ plan.lines[i + 1].pre <= HeadGap

WeeklyWarning(total, current) == [kind |-> "weekly", total |-> total, ref |-> current]
LongRunWarning(long, recent) == [kind |-> "long_run", total |-> long, ref |-> recent]
BackToBackWarning == [kind |-> "back_to_back", total |-> 0, ref |-> 0]

\* if current_weekly: cap = current_weekly * 1.15; if weekly_total and weekly_total > cap
WeeklyCheck(miles, current_weekly) ==
    IF /\ Truthy(current_weekly)
       /\ WeeklyTotal(miles) # 0
       /\ WeeklyTotal(miles) * 100 > current_weekly * CapPercent
    THEN <<WeeklyWarning(WeeklyTotal(miles), current_weekly)>>
    ELSE <<>>

\* if recent_lr and max_long: lr_cap = max(recent_lr + 2, recent_lr * 1.2); if max_long > lr_cap
LongRunCheck(miles, recent_lr) ==
    IF /\ Truthy(recent_lr)
       /\ MaxLong(miles) # 0
       /\ MaxLong(miles) > recent_lr + LongRunMargin * 10
       /\ MaxLong(miles) * 10 > recent_lr * LongRunTenths
    THEN <<LongRunWarning(MaxLong(miles), recent_lr)>>
    ELSE <<>>

\* if "tempo" in ... and "interval" in ...: if re.search(...)
BackToBackCheck(plan) ==
    IF ContainsWord(plan, "tempo") /\ ContainsWord(plan, "interval") /\ BackToBackSearch(plan)
    THEN <<BackToBackWarning>>
    ELSE <<>>

\* _rule_based_safety(plan_text, profile)
RuleBasedSafety(plan, prof) ==
    LET current_weekly == ProfileNumber(prof.weekly)
        recent_lr == ProfileNumber(prof.longrun)
        miles == ExtractMiles(plan)
    IN  WeeklyCheck(miles, current_weekly)
            \o LongRunCheck(miles, recent_lr)
            \o BackToBackCheck(plan)

(***************************************************************************)
(* Inputs of the rule-based check.                                         *)
(***************************************************************************)
Mi == <<"m", "i">>
Miles == <<"m", "i", "l", "e", "s">>
Min == <<"m", "i", "n">>
Km == <<"k", "m">>
MilesCap == <<"M", "i", "l", "e", "s">>

Num(tok, unit) == [num |-> tok, unit |-> unit]

RECURSIVE Rep(_, _)
Rep(n, x) == IF n = 0 THEN <<>> ELSE <<x>> \o Rep(n - 1, x)

BaseItems == {Num(<<"3">>, Mi), Num(<<"1", "0">>, Miles)}

TailItems ==
    { Num(<<"4">>, Mi), Num(<<"6">>, Miles), Num(<<"4", ".", "5">>, Mi),
      Num(<<"1", "5">>, Mi), Num(<<"1", "2">>, Miles), Num(<<"1", "2", ".", "5">>, Mi),
      Num(<<"2", "3">>, Mi), Num(<<"2", "5">>, Min), Num(<<"4", "0">>, Km),
      Num(<<"4", "0">>, MilesCap) }

NumLists ==
    { Rep(n, b) \o t : n \in 0..MaxRep, b \in BaseItems,
                       t \in {<<>>} \cup {<<x>> : x \in TailItems} }

BlankLine == [pre |-> 0, kw |-> "", post |-> 0]
Line(p, k, q) == [pre |-> p, kw |-> k, post |-> q]

Lines ==
    {BlankLine} \cup
    UNION { { Line(HeadGap, k, TailGap), Line(HeadGap + 1, k, TailGap),
              Line(HeadGap, k, TailGap + 1) } : k \in {"Tempo", "interval"} }

Layouts == UNION { [1..n -> Lines] : n \in 0..MaxLines }

\* "Tempo run\nInterval session"
TempoThenInterval == <<Line(0, "Tempo", 4), Line(0, "Interval", 8)>>

SmallNums == {<<>>, Rep(3, Num(<<"1", "0">>, Miles)) \o <<Num(<<"1", "5">>, Mi)>>}
SmallLayouts == {<<>>, TempoThenInterval}

Plan(n, l) == [nums |-> n, lines |-> l]
NoPlan == Plan(<<>>, <<>>)

PlanTexts ==
    { Plan(n, l) : n \in NumLists, l \in SmallLayouts } \cup
    { Plan(n, l) : n \in SmallNums, l \in Layouts }

\* the captured group after "Current weekly mileage:" / "Recent long run:"
WeeklyFields == {<<>>, <<"0", ".", "0">>, <<"3", "0", ".", "0">>, <<"1", ".", "2", ".", "3">>}
LongRunFields == {<<>>, <<"0", ".", "0">>, <<"1", "0", ".", "0">>, <<"2", "0">>, <<".">>}

Profile(w, r) == [weekly |-> w, longrun |-> r]
NoProfile == Profile(<<>>, <<>>)
Profiles == { Profile(w, r) : w \in WeeklyFields, r \in LongRunFields }

\* INDEX_DIR before the first build
NoIndex == [exists |-> FALSE, chunks |-> {}]

(***************************************************************************)
(* _rule_based_safety applied to every profile and plan text.              *)
(***************************************************************************)
Idle ==
    /\ index = NoIndex
    /\ lastOp = [op |-> "none"]
    /\ err = "none"
    /\ docs = <<>>
    /\ embedCalled = FALSE
    /\ messages = <<>>
    /\ safety = <<>>
    /\ warnings = <<>>
    /\ review = ""

InitSafety ==
    /\ Idle
    /\ pc = "rules_call"
    /\ op = "rules"
    /\ profile \in Profiles
    /\ planText \in PlanTexts

RuleCheck ==
    /\ pc = "rules_call"
    /\ warnings' = RuleBasedSafety(planText, profile)
    /\ pc' = "rules_done"
    /\ UNCHANGED <<index, lastOp, err, docs, embedCalled, op, messages, profile,
                   planText, safety, review>>

NextSafety == RuleCheck

SpecSafety == InitSafety /\ [][NextSafety]_vars

(***************************************************************************)
(* Properties of the rule-based check.                                     *)
(***************************************************************************)
Kinds(ws) == [i \in DOMAIN ws |-> ws[i].kind]
HasKind(ws, k) == \E i \in DOMAIN ws : ws[i].kind = k

\* a captured group float() accepts: at least one digit, at most one dot
Parsable(field) ==
    /\ \E i \in DOMAIN field : field[i] \in Digits
    /\ Cardinality({i \in DOMAIN field : field[i] = "."}) <= 1

\* C5: whenever "Current weekly mileage: N" is parsed from the profile (N = 0
\* included), the weekly-volume warning is emitted if and only if the sum of
\* the first 10 extracted distances exceeds 1.15 x N.
C5_WeeklyVolumeRule ==
    (pc = "rules_done" /\ Parsable(profile.weekly)) =>
        (HasKind(warnings, "weekly") <=>
            SumSeq(Take(ExtractMiles(planText), 10)) * 100 > Float(profile.weekly) * 115)

\* C6: whenever "Recent long run: R" is parsed from the profile, the long-run
\* warning is emitted if and only if the largest extracted distance exceeds
\* max(R + 2, 1.2 x R), whatever the weekly-mileage field holds.
C6_LongRunRule ==
    (pc = "rules_done" /\ Parsable(profile.longrun)) =>
        LET long == MaxSeq(ExtractMiles(planText))
            r == Float(profile.longrun)
        IN  HasKind(warnings, "long_run") <=> (long > r + 20 /\ long * 10 > r * 12)

TempoAt(plan, i) == plan.lines[i].kw \in {"Tempo", "TEMPO", "tempo"}
IntervalAt(plan, i) == plan.lines[i].kw \in {"Interval", "INTERVAL", "interval"}

\* a tempo keyword and an interval keyword on adjacent lines, in either order
AdjacentTempoInterval(plan) ==
    \E i \in 1..(Len(plan.lines) - 1) :
        \/ TempoAt(plan, i) /\ IntervalAt(plan, i + 1)
        \/ IntervalAt(plan, i) /\ TempoAt(plan, i + 1)

\* C7 as stated: the back-to-back warning is emitted whenever a tempo and an
\* interval keyword stand on adjacent lines, whatever else the lines hold, and
\* is not emitted when no tempo keyword stands next to an interval keyword
\* (they are further apart, or the adjacent pair is one keyword twice).
C7_AdjacentLinesRule ==
    pc = "rules_done" =>
        (HasKind(warnings, "back_to_back") <=> AdjacentTempoInterval(planText))

\* C7 amended: the back-to-back warning is emitted exactly when the text holds
\* both keywords somewhere and, on some pair of adjacent lines, a keyword
\* (either one) is followed by at most 40 characters on its line and a keyword
\* (either one, possibly the same) starts within the first 10 characters of the
\* next line.
C7_BackToBackWindow ==
    pc = "rules_done" =>
        (HasKind(warnings, "back_to_back") <=>
            /\ \E i \in DOMAIN planText.lines : TempoAt(planText, i)
            /\ \E i \in DOMAIN planText.lines : IntervalAt(planText, i)
            /\ \E i \in DOMAIN planText.lines :
                /\ i + 1 \in DOMAIN planText.lines
                /\ TempoAt(planText, i) \/ IntervalAt(planText, i)
                /\ planText.lines[i].post <= 40
                /\ TempoAt(planText, i + 1) \/ IntervalAt(planText, i + 1)
                /\ planText.lines[i + 1].pre <= 10)

\* a tempo line directly before an interval line whose keyword starts after
\* more than 10 characters: no warning
C7_Witness ==
    /\ pc = "rules_done"
    /\ \E i \in 1..(Len(planText.lines) - 1) :
        /\ TempoAt(planText, i)
        /\ IntervalAt(planText, i + 1)
        /\ planText.lines[i + 1].pre > 10
    /\ ~HasKind(warnings, "back_to_back")

Rank(k) == CASE k = "weekly" -> 1 [] k = "long_run" -> 2 [] k = "back_to_back" -> 3

\* at most one warning of each kind, in the order weekly, long run, back-to-back
FixedOrder(ws) ==
    /\ \A i \in DOMAIN ws : ws[i].kind \in {"weekly", "long_run", "back_to_back"}
    /\ \A i, j \in DOMAIN ws : i < j => Rank(ws[i].kind) < Rank(ws[j].kind)

\* C8 as stated: with neither field parsable the returned list is empty; in
\* every case at most one warning of each kind, in the fixed order.
C8_EmptyWithoutProfileNumbers ==
    pc = "rules_done" =>
        /\ (~Parsable(profile.weekly) /\ ~Parsable(profile.longrun)) => warnings = <<>>
        /\ FixedOrder(warnings)

\* C8 amended: with neither field parsable no weekly-volume and no long-run
\* warning is returned (the back-to-back warning does not depend on the
\* profile); in every case at most one warning of each kind, in the fixed order.
C8_NoNumericWarningsWithoutProfileNumbers ==
    pc = "rules_done" =>
        /\ (~Parsable(profile.weekly) /\ ~Parsable(profile.longrun)) =>
               (~HasKind(warnings, "weekly") /\ ~HasKind(warnings, "long_run"))
        /\ FixedOrder(warnings)

\* both fields present but unparsable, a plan with distances and adjacent
\* keywords: only the back-to-back warning
C8_Witness ==
    /\ pc = "rules_done"
    /\ profile.weekly # <<>> /\ ~Parsable(profile.weekly)
    /\ profile.longrun # <<>> /\ ~Parsable(profile.longrun)
    /\ ExtractMiles(planText) # <<>>
    /\ Kinds(warnings) = <<"back_to_back">>

(***************************************************************************)
(* Index build (src/ingest/build_index.py).  A source file of the raw      *)
(* corpus is [dirs, name, ext, parts]: the folders below RAW_DIR, the file *)
(* name, the extension, and the number of chunks the splitter cuts its     *)
(* text into.                                                              *)
(***************************************************************************)
File(d, n, e, p) == [dirs |-> d, name |-> n, ext |-> e, parts |-> p]

SourceFiles ==
    { File(<<"safety">>, "heat", "md", 1),
      File(<<>>, "week1", "md", MaxParts),
      File(<<"fueling">>, "shoes", "pdf", 1),
      File(<<"biomech">>, "stride", "txt", 1),
      File(<<>>, "Shoe-guide", "md", 1),
      File(<<"fueling", "safety">>, "salt", "txt", 1) }

Corpora == { c \in SUBSET SourceFiles : Cardinality(c) <= MaxFiles }

\* RAW_DIR: whether it exists, and the files below it
RawDirs ==
    {[exists |-> FALSE, files |-> {}]} \cup { [exists |-> TRUE, files |-> c] : c \in Corpora }

Loaders == {"pdf", "md", "txt"}

\* the path string of a file, as far as tag_domain reads it
SourcePath(f) == [dirs |-> f.dirs, name |-> f.name, ext |-> f.ext]

\* "/<folder>/" in src
InFolder(src, folder) == \E i \in DOMAIN src.dirs : src.dirs[i] = folder

\* "shoe" in src.lower(), on the names used here
MentionsShoe(src) == src.name \in {"Shoe-guide", "shoes"}

\* load_documents: each DirectoryLoader that does not fail adds its files
\* (an exception of a loader is caught and printed)
LoadDocuments(raw, failing) ==
    { [source |-> SourcePath(f), parts |-> f.parts] : f \in {g \in raw.files : g.ext \notin failing} }

TagDomain_FolderOnly(src) ==
    IF InFolder(src, "safety") THEN "safety"
    ELSE IF InFolder(src, "fueling") THEN "fueling"
    ELSE IF InFolder(src, "biomech") THEN "biomech"
    ELSE "plans"

\* tag_domain: doc.metadata["domain"]
TagDomain(src) ==
    IF InFolder(src, "safety") THEN "safety"
    ELSE IF InFolder(src, "fueling") THEN "fueling"
    ELSE IF InFolder(src, "biomech") \/ MentionsShoe(src) THEN "biomech"
    ELSE "plans"

\* chunk_documents: split_documents copies the metadata of a document to each
\* of its chunks
ChunkDocuments(documents) ==
    UNION { { [source |-> d.source, domain |-> d.domain, part |-> i] : i \in 1..d.parts }
            : d \in documents }

\* main(): the exception it ends with ("none": the index was written)
BuildError(raw, failing, embedOK) ==
    IF ~raw.exists THEN "FileNotFoundError"
    ELSE IF LoadDocuments(raw, failing) = {} THEN "RuntimeError"
    ELSE IF ~embedOK THEN "ProviderError"
    ELSE "none"

\* main(): the chunks handed to build_and_save_index
BuildChunks(raw, failing) ==
    ChunkDocuments({ [source |-> d.source, domain |-> TagDomain(d.source), parts |-> d.parts]
                     : d \in LoadDocuments(raw, failing) })

\* python -m src.ingest.build_index
Build ==
    /\ pc = "idle"
    /\ \E raw \in RawDirs, failing \in SUBSET Loaders, embedOK \in BOOLEAN :
        /\ lastOp' = [op |-> "build", rawExists |-> raw.exists, loaderFailed |-> failing # {},
                      loaded |-> Cardinality(LoadDocuments(raw, failing)), embedOK |-> embedOK]
        /\ err' = BuildError(raw, failing, embedOK)
        /\ index' = IF BuildError(raw, failing, embedOK) = "none"
                    THEN [exists |-> TRUE, chunks |-> BuildChunks(raw, failing)]
                    ELSE index
    /\ docs' = <<>>
    /\ embedCalled' = FALSE
    /\ UNCHANGED <<pc, op, messages, profile, planText, safety, warnings, review>>

(***************************************************************************)
(* Retrieval (src/ingest/retriever.py).                                    *)
(***************************************************************************)
\* the orders in which similarity_search can rank the chunks of the index
Rankings(idx) ==
    { r \in [1..Cardinality(idx.chunks) -> idx.chunks] :
        \A i, j \in DOMAIN r : i # j => r[i] # r[j] }

\* retrieve(query, k) called with or without a domain keyword argument.  The
\* signature is retrieve(query: str, k: int = 4): a call that passes domain=
\* raises TypeError before the body runs.
Retrieve(withDomainKeyword, k, idx, embedOK, ranking) ==
    IF withDomainKeyword
    THEN [err |-> "TypeError", docs |-> <<>>, embedCalled |-> FALSE]
    ELSE IF ~idx.exists
    THEN [err |-> "FileNotFoundError", docs |-> <<>>, embedCalled |-> FALSE]
    ELSE IF ~embedOK
    THEN [err |-> "ProviderError", docs |-> <<>>, embedCalled |-> TRUE]
    ELSE [err |-> "none", docs |-> Take(ranking, k), embedCalled |-> TRUE]

\* a call of retrieve: directly (with or without domain=), or from
\* scripts/quick_eval.py, which always passes domain=rec.get("domain")
RetrieveCall ==
    /\ pc = "idle"
    /\ \E caller \in {"direct", "quick_eval"}, kw \in BOOLEAN, k \in 1..MaxK,
          domain \in {"None", "safety", "plans"}, embedOK \in BOOLEAN :
        /\ caller = "quick_eval" => kw
        /\ ~kw => domain = "None"
        /\ \E ranking \in IF kw \/ ~embedOK THEN {<<>>} ELSE Rankings(index) :
           LET r == Retrieve(kw, k, index, embedOK, ranking)
           IN  /\ err' = r.err
               /\ docs' = r.docs
               /\ embedCalled' = r.embedCalled
        /\ lastOp' = [op |-> "retrieve", caller |-> caller, withDomainKeyword |-> kw, k |-> k,
                      domain |-> domain, embedOK |-> embedOK]
    /\ UNCHANGED <<index, pc, op, messages, profile, planText, safety, warnings, review>>

InitIndex ==
    /\ index = NoIndex
    /\ lastOp = [op |-> "none"]
    /\ err = "none"
    /\ docs = <<>>
    /\ embedCalled = FALSE
    /\ pc = "idle"
    /\ op = "none"
    /\ messages = <<>>
    /\ profile = NoProfile
    /\ planText = NoPlan
    /\ safety = <<>>
    /\ warnings = <<>>
    /\ review = ""

NextIndex == Build \/ RetrieveCall

SpecIndex == InitIndex /\ [][NextIndex]_vars

(***************************************************************************)
(* The agent graph (src/graph/coach_graph.py).  A message is               *)
(* [role, content, calls]; calls are the tool calls of a model response.   *)
(***************************************************************************)
DefaultK == 3      \* retrieve_tool(query, k=3, domain="")
MinWeeks == 4      \* max(4, ...)
MaxWeeks == 24     \* min(24, ...)
DefaultWeeks == 12 \* weeks_to_race or 12

Msg(r, c, t) == [role |-> r, content |-> c, calls |-> t]
Last(msgs) == msgs[Len(msgs)]

\* weeks = max(4, min(24, weeks_to_race or 12))
ClampWeeks(weeks_to_race) ==
    LET w == IF weeks_to_race = 0 THEN DefaultWeeks ELSE weeks_to_race
        m == IF w < MaxWeeks THEN w ELSE MaxWeeks
    IN  IF m > MinWeeks THEN m ELSE MinWeeks

\* the messages run_plan / run_adjust start the graph with
StartMessages(task, prof, weeks) ==
    << Msg("system", [task |-> task, profile |-> NoProfile, weeks |-> 0], <<>>),
       Msg("human", [task |-> task, profile |-> prof, weeks |-> weeks], <<>>) >>

\* retrieve_tool(query, k, domain): dom = domain if domain else None, then
\* retrieve(query, k=k, domain=dom), then one "[i] text (source: path)" entry
\* per returned chunk
RetrieveTool(call, idx, embedOK, ranking) ==
    LET r == Retrieve(TRUE, call.k, idx, embedOK, ranking)
    IN  [err |-> r.err,
         out |-> [i \in DOMAIN r.docs |-> [n |-> i, source |-> r.docs[i].source,
                                            part |-> r.docs[i].part]]]

\* the tool calls a model response can carry
Calls == { [query |-> "q", k |-> DefaultK, domain |-> d] : d \in {"", "safety"} }
CallLists == { Rep(n, c) : n \in 1..MaxCalls, c \in Calls }

CoachPlans == { Plan(n, l) : n \in SmallNums, l \in SmallLayouts }
CoachProfiles ==
    { NoProfile, Profile(<<"3", "0", ".", "0">>, <<"1", "0", ".", "0">>),
      Profile(<<"0", ".", "0">>, <<"0", ".", "0">>) }
Reviews == {"No major safety issues detected.", "1. Shorten the long run."}
WeeksToRace == {0, 2, 30}

\* what llm_with_tools.invoke can answer: a final text, or a request for
\* one or more retrieve_tool calls
Responses(msgs) ==
    { Msg("ai", c, <<>>) : c \in CoachPlans } \cup
    { Msg("ai", NoPlan, cs) :
        cs \in IF Cardinality({i \in DOMAIN msgs : msgs[i].calls # <<>>}) < MaxRounds
               THEN CallLists ELSE {} }

\* agent_node: the messages it adds to the state
AgentNode(msgs, response) == IF msgs = <<>> THEN <<>> ELSE <<response>>

\* tools_condition: the node after agent
ToolsCondition(msgs) ==
    IF msgs # <<>> /\ Last(msgs).role = "ai" /\ Last(msgs).calls # <<>>
    THEN "tools" ELSE "end"

\* ToolNode([retrieve_tool]): one tool message per tool call of the last
\* model response
ToolMessages(msgs, idx) ==
    LET calls == Last(msgs).calls
    IN  [i \in DOMAIN calls |->
            LET r == RetrieveTool(calls[i], idx, TRUE, <<>>)
            IN  Msg("tool", [status |-> IF r.err = "none" THEN "success" ELSE "error",
                             text |-> r.err, out |-> r.out], <<>>)]

\* whether some tool call of the last model response raised
ToolRaises(msgs, idx) ==
    \E i \in DOMAIN Last(msgs).calls :
        RetrieveTool(Last(msgs).calls[i], idx, TRUE, <<>>).err # "none"

Lit(text) == [kind |-> text, total |-> 0, ref |-> 0]

RECURSIVE Join(_, _)
\* sep.join(parts), as the sequence of its pieces
Join(parts, sep) ==
    IF Len(parts) <= 1 THEN parts
    ELSE <<Head(parts), sep>> \o Join(Tail(parts), sep)

CombineSafety_ReviewOnly(safety_rules, safety_llm) == <<Lit(safety_llm)>>

\* run_plan: combined
CombineSafety(safety_rules, safety_llm) ==
    IF safety_rules # <<>>
    THEN <<Lit("Heuristic checks:\n- ")>> \o Join(safety_rules, Lit("\n- "))
             \o <<Lit("\n\nLLM review:\n"), Lit(safety_llm)>>
    ELSE <<Lit(safety_llm)>>

\* run_plan: plan_text = msgs[-1].content if msgs else "No response produced."
FinalText(msgs) == IF msgs # <<>> THEN Last(msgs).content ELSE NoPlan

AdjustSafety_WithRules(adjusted, prof, safety_llm) ==
    CombineSafety(RuleBasedSafety(adjusted, prof), safety_llm)

\* run_adjust: safety = _safety_review(adjusted, profile)
AdjustSafety(adjusted, prof, safety_llm) == <<Lit(safety_llm)>>

Free == pc \in {"idle", "done", "raised"}

Reset ==
    /\ planText' = NoPlan
    /\ safety' = <<>>
    /\ warnings' = <<>>
    /\ review' = ""
    /\ err' = "none"

\* run_plan(profile, task, weeks_to_race) up to app.invoke
RunPlanStart ==
    /\ Free
    /\ \E prof \in CoachProfiles, w \in WeeksToRace :
        /\ profile' = prof
        /\ messages' = StartMessages("plan", prof, ClampWeeks(w))
    /\ op' = "plan"
    /\ pc' = "agent"
    /\ Reset
    /\ UNCHANGED <<index, lastOp, docs, embedCalled>>

\* run_adjust(profile, today_plan, weather, fatigue) up to app.invoke
RunAdjustStart ==
    /\ Free
    /\ \E prof \in CoachProfiles :
        /\ profile' = prof
        /\ messages' = StartMessages("adjust", prof, 0)
    /\ op' = "adjust"
    /\ pc' = "agent"
    /\ Reset
    /\ UNCHANGED <<index, lastOp, docs, embedCalled>>

\* the agent node and the conditional edge after it; a failing model call
\* ends the invocation with the provider's exception
AgentStep ==
    /\ pc = "agent"
    /\ \/ \E response \in Responses(messages) :
            /\ messages' = messages \o AgentNode(messages, response)
            /\ pc' = ToolsCondition(messages')
            /\ err' = err
       \/ /\ pc' = "raised"
          /\ err' = "ProviderError"
          /\ messages' = messages
    /\ UNCHANGED <<index, lastOp, docs, embedCalled, op, profile, planText, safety,
                   warnings, review>>

\* the tools node and the edge back to agent.  When a tool call raises, the
\* ToolNode either answers with an error tool message (handle_tool_errors
\* catching every exception) or lets the exception end the invocation
\* (handle_tool_errors catching only invalid arguments): which one depends on
\* the installed langgraph.
ToolsStep ==
    /\ pc = "tools"
    /\ \/ /\ messages' = messages \o ToolMessages(messages, index)
          /\ pc' = "agent"
          /\ err' = err
       \/ /\ ToolRaises(messages, index)
          /\ pc' = "raised"
          /\ err' = "TypeError"
          /\ messages' = messages
    /\ UNCHANGED <<index, lastOp, docs, embedCalled, op, profile, planText, safety,
                   warnings, review>>

\* run_plan after app.invoke: _safety_review, _rule_based_safety, combined
RunPlanFinish ==
    /\ pc = "end"
    /\ op = "plan"
    /\ planText' = FinalText(messages)
    /\ \/ \E safety_llm \in Reviews :
            /\ review' = safety_llm
            /\ warnings' = RuleBasedSafety(FinalText(messages), profile)
            /\ safety' = CombineSafety(warnings', safety_llm)
            /\ pc' = "done"
            /\ err' = err
       \/ /\ pc' = "raised"
          /\ err' = "ProviderError"
          /\ UNCHANGED <<review, warnings, safety>>
    /\ UNCHANGED <<index, lastOp, docs, embedCalled, op, messages, profile>>

\* run_adjust after app.invoke: _safety_review only
RunAdjustFinish ==
    /\ pc = "end"
    /\ op = "adjust"
    /\ planText' = FinalText(messages)
    /\ \/ \E safety_llm \in Reviews :
            /\ review' = safety_llm
            /\ safety' = AdjustSafety(FinalText(messages), profile, safety_llm)
            /\ pc' = "done"
            /\ err' = err
       \/ /\ pc' = "raised"
          /\ err' = "ProviderError"
          /\ UNCHANGED <<review, safety>>
    /\ UNCHANGED <<index, lastOp, docs, embedCalled, op, messages, profile, warnings>>

InitCoach == InitIndex

NextCoach ==
    \/ RunPlanStart
    \/ RunAdjustStart
    \/ AgentStep
    \/ ToolsStep
    \/ RunPlanFinish
    \/ RunAdjustFinish

SpecCoach == InitCoach /\ [][NextCoach]_vars

(***************************************************************************)
(* Properties of index build and retrieval (under SpecIndex).              *)
(***************************************************************************)
\* C1: a retrieve call that names a domain label, on a built index with a
\* working embedding provider, succeeds and returns only chunks whose domain
\* is that label.
C1_DomainFilteredRetrieve ==
    ( /\ lastOp.op = "retrieve"
      /\ lastOp.withDomainKeyword
      /\ lastOp.domain # "None"
      /\ index.exists
      /\ lastOp.embedOK ) =>
        /\ err = "none"
        /\ \A i \in DOMAIN docs : docs[i].domain = lastOp.domain

\* C9: a build that fails leaves INDEX_DIR as it was; a build whose raw
\* folder exists, with at least one document loaded by a loader that did not
\* fail and a working embedding provider, writes the index; a retrieve call
\* raises the missing-index error, before the embedding client is created, if
\* and only if no build has written the index so far.
C9_BuildFailureAndMissingIndex ==
    [][ /\ (lastOp'.op = "build" /\ err' # "none") => index' = index
        /\ (lastOp'.op = "build" /\ lastOp'.rawExists /\ lastOp'.loaded > 0 /\ lastOp'.embedOK)
               => (err' = "none" /\ index'.exists)
        /\ lastOp'.op = "retrieve"
               => ((err' = "FileNotFoundError" /\ ~embedCalled') <=> ~index.exists)
      ]_vars

Under(src, folder) == \E i \in DOMAIN src.dirs : src.dirs[i] = folder

InGraph(p) == p \in {"agent", "tools", "end"}
IsPrefix(s, t) == Len(s) <= Len(t) /\ SubSeq(t, 1, Len(s)) = s
RequestsTool(m) == m.role = "ai" /\ m.calls # <<>>
FinalAnswer(m) == m.role = "ai" /\ m.calls = <<>>

\* C2: an invocation enters the graph at agent; agent hands over to tools
\* exactly when the latest model response requests the tool; tools always
\* hands back to agent after appending one tool message; the graph ends
\* exactly when the latest model response requests no tool; messages are
\* only appended; the returned text is the content of the last message.
C2_AgentToolsLoop ==
    [][ /\ (~InGraph(pc) /\ InGraph(pc')) => pc' = "agent"
        /\ pc = "agent" => (pc' = "tools" <=> RequestsTool(Last(messages')))
        /\ pc = "agent" => (pc' = "end" <=> FinalAnswer(Last(messages')))
        /\ pc = "tools" =>
               /\ pc' = "agent"
               /\ Len(messages') = Len(messages) + 1
               /\ Last(messages').role = "tool"
        /\ InGraph(pc) => IsPrefix(messages, messages')
        /\ pc' = "done" => planText' = Last(messages').content
      ]_vars

\* C3 as stated: run_adjust returns the combined text when the rule-based
\* check has a warning for the adjusted text, the model output alone otherwise.
C3_AdjustRunsBothChecks ==
    (pc = "done" /\ op = "adjust") =>
        IF RuleBasedSafety(planText, profile) # <<>>
        THEN /\ Len(safety) > 1
             /\ safety[1] = Lit("Heuristic checks:\n- ")
             /\ safety[Len(safety)] = Lit(review)
        ELSE safety = <<Lit(review)>>

\* C3 amended: run_adjust runs the model-based check only: the safety text it
\* returns is the model output alone, whether or not the rule-based check
\* would yield a warning for the adjusted text and the profile.
C3_AdjustReturnsModelReviewOnly ==
    (pc = "done" /\ op = "adjust") =>
        /\ planText = Last(messages).content
        /\ safety = <<Lit(review)>>

\* run_adjust returned for a text the rule-based check has warnings for
C3_Witness ==
    /\ pc = "done"
    /\ op = "adjust"
    /\ Len(RuleBasedSafety(planText, profile)) >= 2
    /\ safety = <<Lit(review)>>

\* C4: run_plan returns, next to the plan text, "Heuristic checks:\n- ", the
\* warnings of the rule-based check in their order with "\n- " between them,
\* "\n\nLLM review:\n" and the model output when there is a warning, and the
\* model output alone when there is none.
C4_PlanSafetyText ==
    (pc = "done" /\ op = "plan") =>
        LET n == Len(warnings)
        IN  /\ planText = Last(messages).content
            /\ warnings = RuleBasedSafety(planText, profile)
            /\ IF n = 0
               THEN safety = <<Lit(review)>>
               ELSE /\ Len(safety) = 2 * n + 2
                    /\ safety[1] = Lit("Heuristic checks:\n- ")
                    /\ \A i \in 1..n : safety[2 * i] = warnings[i]
                    /\ \A i \in 1..(n - 1) : safety[2 * i + 1] = Lit("\n- ")
                    /\ safety[2 * n + 1] = Lit("\n\nLLM review:\n")
                    /\ safety[2 * n + 2] = Lit(review)

\* run_plan returned with three warnings
C4_Witness ==
    /\ pc = "done"
    /\ op = "plan"
    /\ Kinds(warnings) = <<"weekly", "long_run", "back_to_back">>
    /\ Len(safety) = 8

====
